---- MODULE Spec2Model ----
(***************************************************************************)
(* A model of pkg/common/types.go of MCPShell: ConvertStringToType, the    *)
(* conversion of a raw string to a typed value according to a declared     *)
(* parameter type, together with the parts of strconv and strings that     *)
(* it calls (ParseFloat, ParseInt, ToLower, Errorf).                       *)
(*                                                                         *)
(* Go strings are TLA+ strings; a byte of a string is a string of length   *)
(* one.  Integers wider than TLC's are kept as strings of decimal digits   *)
(* without leading zeros, and arithmetic on them is done on the digits.    *)
(***************************************************************************)
EXTENDS Integers, Sequences, FiniteSets, TLC

VARIABLES pc, value, paramType, argType, ret, prev

vars == <<pc, value, paramType, argType, ret, prev>>

(***************************************************************************)
(* Bounds of the model.                                                    *)
(***************************************************************************)
MaxLen == 3

(***************************************************************************)
(* Bytes and strings.                                                      *)
(***************************************************************************)
At(s, i) == SubSeq(s, i, i)

Tail1(s) == SubSeq(s, 2, Len(s))

Digits == {"0", "1", "2", "3", "4", "5", "6", "7", "8", "9"}

DigitVal(c) ==
    CASE c = "0" -> 0 [] c = "1" -> 1 [] c = "2" -> 2 [] c = "3" -> 3
      [] c = "4" -> 4 [] c = "5" -> 5 [] c = "6" -> 6 [] c = "7" -> 7
      [] c = "8" -> 8 [] c = "9" -> 9

DigitChr(d) == At("0123456789", d + 1)

Upper == "ABCDEFGHIJKLMNOPQRSTUVWXYZ"

Lower == "abcdefghijklmnopqrstuvwxyz"

IsUpper(c) == \E i \in 1..26 : At(Upper, i) = c

IsLower(c) == \E i \in 1..26 : At(Lower, i) = c

\* strconv's lower(c): c | ('x' - 'X'), used on one byte
lower(c) ==
    IF IsUpper(c)
    THEN At(Lower, CHOOSE i \in 1..26 : At(Upper, i) = c)
    ELSE c

RECURSIVE ToLower(_)
\* strings.ToLower: every upper-case letter replaced by its lower-case letter
ToLower(s) ==
    IF s = "" THEN "" ELSE lower(At(s, 1)) \o ToLower(Tail1(s))

(***************************************************************************)
(* Unsigned integers of any size, as strings of decimal digits without     *)
(* leading zeros ("0" is zero).                                            *)
(***************************************************************************)
NumLess(a, b) ==
    \/ Len(a) < Len(b)
    \/ /\ Len(a) = Len(b)
       /\ \E i \in 1..Len(a) :
            /\ DigitVal(At(a, i)) < DigitVal(At(b, i))
            /\ SubSeq(a, 1, i - 1) = SubSeq(b, 1, i - 1)

NumLeq(a, b) == a = b \/ NumLess(a, b)

\* n*10 + d
MulAdd10(n, d) == IF n = "0" THEN DigitChr(d) ELSE n \o DigitChr(d)

(***************************************************************************)
(* Values and errors.  A Go interface{} value is a record with its dynamic *)
(* type in "kind"; an error is a record with its message and the sentinel  *)
(* it wraps.                                                               *)
(***************************************************************************)
Nil == [kind |-> "nil"]

StringValue(s) == [kind |-> "string", s |-> s]

Int64Value(neg, mag) == [kind |-> "int64", neg |-> neg, mag |-> mag]

BoolValue(b) == [kind |-> "bool", b |-> b]

NewError(msg, sentinel) == [kind |-> "error", msg |-> msg, unwrap |-> sentinel]

ErrSyntaxText == "invalid syntax"

ErrRangeText == "value out of range"

\* strconv.Quote on printable ASCII: the string in double quotes, with the
\* double quote and the backslash escaped
Quote(s) ==
    LET RECURSIVE Esc(_)
        Esc(t) ==
            IF t = "" THEN ""
            ELSE (IF At(t, 1) = "\"" THEN "\\\""
                  ELSE IF At(t, 1) = "\\" THEN "\\\\"
                  ELSE At(t, 1)) \o Esc(Tail1(t))
    IN  "\"" \o Esc(s) \o "\""

\* (*NumError).Error
NumError(func, num, err) ==
    NewError("strconv." \o func \o ": parsing " \o Quote(num) \o ": "
               \o (IF err = "ErrSyntax" THEN ErrSyntaxText ELSE ErrRangeText),
             err)

(***************************************************************************)
(* strconv.ParseUint(s, 10, 64) and strconv.ParseInt(s, 10, 64).           *)
(***************************************************************************)
maxUint64 == "18446744073709551615"

\* maxUint64/10 + 1: the least n for which n*10 overflows
cutoffUint == "1844674407370955162"

\* 1 << 63
cutoffInt == "9223372036854775808"

maxInt64 == "9223372036854775807"

\* the digit a byte stands for in ParseUint, or 99 for no digit at all
UintDigit(c) ==
    IF c \in Digits THEN DigitVal(c)
    ELSE IF IsLower(lower(c))
         THEN 10 + (CHOOSE i \in 1..26 : At(Lower, i) = lower(c)) - 1
         ELSE 99

RECURSIVE ParseUintLoop(_, _, _)
\* the loop of ParseUint over the bytes of s from index i, with n so far
ParseUintLoop(s, i, n) ==
    IF i > Len(s) THEN [n |-> n, err |-> "nil"]
    ELSE LET d == UintDigit(At(s, i)) IN
         IF d >= 10 THEN [n |-> "0", err |-> "ErrSyntax"]
         ELSE IF NumLeq(cutoffUint, n) THEN [n |-> maxUint64, err |-> "ErrRange"]
         ELSE LET n1 == MulAdd10(n, d) IN
              IF NumLess(maxUint64, n1) THEN [n |-> maxUint64, err |-> "ErrRange"]
              ELSE ParseUintLoop(s, i + 1, n1)

ParseUint(s) ==
    IF s = "" THEN [n |-> "0", err |-> "ErrSyntax"]
    ELSE ParseUintLoop(s, 1, "0")

\* IntOutOfRange with "un > cutoff" for both signs
IntOutOfRange_OffByOne(neg, un) == NumLess(cutoffInt, un)

\* the range check of ParseInt on the magnitude un
IntOutOfRange(neg, un) ==
    \/ ~neg /\ NumLeq(cutoffInt, un)
    \/ neg /\ NumLess(cutoffInt, un)

\* ParseIntSigned without "if neg { n = -n }"
ParseIntSigned_NoSign(s, neg, u) ==
    IF u.err = "ErrSyntax"
    THEN [val |-> Int64Value(FALSE, "0"), err |-> NumError("ParseInt", s, "ErrSyntax")]
    ELSE IF IntOutOfRange(neg, u.n)
    THEN [val |-> Int64Value(FALSE, maxInt64), err |-> NumError("ParseInt", s, "ErrRange")]
    ELSE [val |-> Int64Value(FALSE, u.n), err |-> Nil]

\* ParseInt after ParseUint has returned u for the bytes after the sign
ParseIntSigned(s, neg, u) ==
    IF u.err = "ErrSyntax"
    THEN [val |-> Int64Value(FALSE, "0"), err |-> NumError("ParseInt", s, "ErrSyntax")]
    ELSE IF IntOutOfRange(neg, u.n)
    THEN [val |-> IF neg THEN Int64Value(TRUE, cutoffInt) ELSE Int64Value(FALSE, maxInt64),
          err |-> NumError("ParseInt", s, "ErrRange")]
    ELSE [val |-> Int64Value(neg /\ u.n # "0", u.n), err |-> Nil]

ParseInt(s) ==
    IF s = "" THEN [val |-> Int64Value(FALSE, "0"), err |-> NumError("ParseInt", s, "ErrSyntax")]
    ELSE ParseIntSigned(s, At(s, 1) = "-",
                        ParseUint(IF At(s, 1) \in {"+", "-"} THEN Tail1(s) ELSE s))

(***************************************************************************)
(* strconv.ParseFloat(s, 64).                                              *)
(*                                                                         *)
(* ParseFloat returns the float64 nearest (ties to even) to the number     *)
(* the string denotes.  A finite non-zero float64 is written here as the   *)
(* exact number it is the rounding of: 0.digits * radix^exp, with digits   *)
(* free of leading and trailing zeros.  Equal records are equal float64s;  *)
(* the rounding step itself is not computed.  Overflow to infinity and     *)
(* underflow to zero are decided exactly, against the two thresholds.      *)
(***************************************************************************)
FloatNaN == [kind |-> "float64", class |-> "NaN", neg |-> FALSE, radix |-> 0, digits |-> "", exp |-> 0]

FloatInf(neg) == [kind |-> "float64", class |-> "Inf", neg |-> neg, radix |-> 0, digits |-> "", exp |-> 0]

FloatZero(neg) == [kind |-> "float64", class |-> "zero", neg |-> neg, radix |-> 0, digits |-> "", exp |-> 0]

FloatFinite(neg, radix, digits, exp) ==
    [kind |-> "float64", class |-> "finite", neg |-> neg, radix |-> radix, digits |-> digits, exp |-> exp]

\* 2^1024 - 2^970, the least magnitude that rounds to infinity: 0.ovfDigits * 10^309
ovfDigits == "179769313486231580793728971405303415079934132710037826936173778980444968292764750946649017977587207096330286416692887910946555547851940402630657488671505820681908902000708383676273854845817711531764475730270069855571366959622842914819860834936475292719074168444365510704342711559699508093042880177904174497792"

ovfExp10 == 309

\* 2^-1075, the greatest magnitude that rounds to zero: 0.undDigits * 10^-323
undDigits == "24703282292062327208828439643411068618252990130716238221279284125033775363510437593264991818081799618989828234772285886546332835517796989819938739800539093906315035659515570226392290858392449105184435931802849936536152500319370457678249219365623669863658480757001585769269903706311928279558551332927834338409351978015531246597263579574622766465272827220056374006485499977096599470454020828166226237857393450736339007967761930577506740176324673600968951340535537458516661134223766678604162159680461914467291840300530057530849048765391711386591646239524912623653881879636239373280423891018672348497668235089863388587925628302755995657524455507255189313690836254779186948667994968324049705821028513185451396213837722826145437693412532098591327667236328125"

undExp10 == -323

\* the same two thresholds in binary: 0.(54 ones) * 2^1024 and 0.1 * 2^-1074
ovfBits == "111111111111111111111111111111111111111111111111111111"

ovfExp2 == 1024

undExp2 == -1074

RECURSIVE FracLess(_, _)
\* 0.a < 0.b, for strings of digits
FracLess(a, b) ==
    IF b = "" THEN FALSE
    ELSE IF a = "" THEN \E i \in 1..Len(b) : At(b, i) # "0"
    ELSE IF At(a, 1) = At(b, 1) THEN FracLess(Tail1(a), Tail1(b))
    ELSE DigitVal(At(a, 1)) < DigitVal(At(b, 1))

RECURSIVE RStrip0(_)
\* s without its trailing zeros
RStrip0(s) ==
    IF s # "" /\ At(s, Len(s)) = "0" THEN RStrip0(SubSeq(s, 1, Len(s) - 1)) ELSE s

\* the number of leading zeros of s
LeadZeros(s) ==
    IF \A i \in 1..Len(s) : At(s, i) = "0" THEN Len(s)
    ELSE (CHOOSE i \in 1..Len(s) : At(s, i) # "0" /\ \A j \in 1..(i - 1) : At(s, j) = "0") - 1

HexBits(c) ==
    CASE c = "0" -> "0000" [] c = "1" -> "0001" [] c = "2" -> "0010" [] c = "3" -> "0011"
      [] c = "4" -> "0100" [] c = "5" -> "0101" [] c = "6" -> "0110" [] c = "7" -> "0111"
      [] c = "8" -> "1000" [] c = "9" -> "1001" [] c = "a" -> "1010" [] c = "b" -> "1011"
      [] c = "c" -> "1100" [] c = "d" -> "1101" [] c = "e" -> "1110" [] c = "f" -> "1111"

IsHexLetter(c) == lower(c) \in {"a", "b", "c", "d", "e", "f"}

\* commonPrefixLenIgnoreCase(s, prefix), prefix in lower case
commonPrefixLenIgnoreCase(s, prefix) ==
    LET n == IF Len(s) < Len(prefix) THEN Len(s) ELSE Len(prefix)
        same(i) == lower(At(s, i)) = At(prefix, i)
    IN  IF \A i \in 1..n : same(i) THEN n
        ELSE (CHOOSE i \in 1..n : ~same(i) /\ \A j \in 1..(i - 1) : same(j)) - 1

\* special(s) once the length n0 of the common prefix with "infinity" is known
specialInf(neg, nsign, n0) ==
    IF n0 = 3 \/ (3 < n0 /\ n0 < 8)
    THEN [ok |-> TRUE, n |-> nsign + 3, f |-> FloatInf(neg)]
    ELSE IF n0 = 8 THEN [ok |-> TRUE, n |-> nsign + 8, f |-> FloatInf(neg)]
    ELSE [ok |-> FALSE, n |-> 0, f |-> FloatZero(FALSE)]

\* special(s): the infinities and NaN; n is the number of bytes consumed
special(s) ==
    IF s = "" THEN [ok |-> FALSE, n |-> 0, f |-> FloatZero(FALSE)]
    ELSE IF At(s, 1) \in {"+", "-"}
    THEN specialInf(At(s, 1) = "-", 1, commonPrefixLenIgnoreCase(Tail1(s), "infinity"))
    ELSE IF At(s, 1) \in {"i", "I"}
    THEN specialInf(FALSE, 0, commonPrefixLenIgnoreCase(s, "infinity"))
    ELSE IF At(s, 1) \in {"n", "N"} /\ commonPrefixLenIgnoreCase(s, "nan") = 3
    THEN [ok |-> TRUE, n |-> 3, f |-> FloatNaN]
    ELSE [ok |-> FALSE, n |-> 0, f |-> FloatZero(FALSE)]

RECURSIVE readMantissa(_, _, _, _)
\* the mantissa loop of readFloat from byte i: st holds sawdot, sawdigits,
\* nd, dp, the significant digits read and whether an underscore was seen
readMantissa(s, i, hex, st) ==
    IF i > Len(s) THEN [st EXCEPT !.i = i]
    ELSE LET c == At(s, i) IN
         IF c = "_" THEN readMantissa(s, i + 1, hex, [st EXCEPT !.underscores = TRUE])
         ELSE IF c = "." THEN
              IF st.sawdot THEN [st EXCEPT !.i = i]
              ELSE readMantissa(s, i + 1, hex, [st EXCEPT !.sawdot = TRUE, !.dp = st.nd])
         ELSE IF c \in Digits THEN
              IF c = "0" /\ st.nd = 0
              THEN readMantissa(s, i + 1, hex,
                                [st EXCEPT !.sawdigits = TRUE, !.dp = st.dp - 1])
              ELSE readMantissa(s, i + 1, hex,
                                [st EXCEPT !.sawdigits = TRUE, !.nd = st.nd + 1,
                                           !.digits = st.digits \o c])
         ELSE IF hex /\ IsHexLetter(c)
              THEN readMantissa(s, i + 1, hex,
                                [st EXCEPT !.sawdigits = TRUE, !.nd = st.nd + 1,
                                           !.digits = st.digits \o lower(c)])
         ELSE [st EXCEPT !.i = i]

RECURSIVE readExponent(_, _, _, _)
\* the exponent loop of readFloat from byte i, with e so far
readExponent(s, i, e, underscores) ==
    IF i <= Len(s) /\ (At(s, i) \in Digits \/ At(s, i) = "_")
    THEN IF At(s, i) = "_" THEN readExponent(s, i + 1, e, TRUE)
         ELSE readExponent(s, i + 1,
                           IF e < 10000 THEN e * 10 + DigitVal(At(s, i)) ELSE e,
                           underscores)
    ELSE [i |-> i, e |-> e, underscores |-> underscores]

RECURSIVE underscoreScan(_, _, _, _)
\* the loop of underscoreOK from byte i; saw is the kind of the last byte
underscoreScan(s, i, hex, saw) ==
    IF i > Len(s) THEN saw # "_"
    ELSE LET c == At(s, i) IN
         IF c \in Digits \/ (hex /\ IsHexLetter(c)) THEN underscoreScan(s, i + 1, hex, "0")
         ELSE IF c = "_" THEN (saw = "0" /\ underscoreScan(s, i + 1, hex, "_"))
         ELSE IF saw = "_" THEN FALSE
         ELSE underscoreScan(s, i + 1, hex, "!")

\* underscoreOK accepting an underscore anywhere
underscoreOK_Anywhere(s0) == TRUE

\* underscoreOK(s): underscores only between digits, or after a base prefix
underscoreOK(s0) ==
    LET s      == IF Len(s0) >= 1 /\ At(s0, 1) \in {"+", "-"} THEN Tail1(s0) ELSE s0
        prefix == Len(s) >= 2 /\ At(s, 1) = "0" /\ lower(At(s, 2)) \in {"b", "o", "x"}
        hex    == prefix /\ lower(At(s, 2)) = "x"
    IN  IF prefix THEN underscoreScan(s, 3, hex, "0")
        ELSE underscoreScan(s, 1, hex, "^")

\* readFloat's "return" with ok false, at byte i
noFloat(i) == [ok |-> FALSE, i |-> i, neg |-> FALSE, hex |-> FALSE, digits |-> "", dp |-> 0]

\* readFloat once the exponent x has been read: the underscore check
readFloatEnd(s, neg, hex, m, dp1, esign, x) ==
    IF x.underscores /\ ~underscoreOK(SubSeq(s, 1, x.i - 1)) THEN noFloat(x.i)
    ELSE [ok |-> TRUE, i |-> x.i, neg |-> neg, hex |-> hex,
          digits |-> m.digits, dp |-> dp1 + x.e * esign]

\* readFloat at the exponent, whose first byte after the sign is byte k
readFloatExp(s, neg, hex, m, dp1, esign, k) ==
    IF k > Len(s) \/ At(s, k) \notin Digits THEN noFloat(k)
    ELSE readFloatEnd(s, neg, hex, m, dp1, esign, readExponent(s, k, 0, m.underscores))

\* readFloat after the mantissa loop, which left m; dp1 is dp (in bits for hex)
readFloatTail(s, neg, hex, m, dp1) ==
    IF ~m.sawdigits THEN noFloat(m.i)
    ELSE IF m.i <= Len(s) /\ lower(At(s, m.i)) = (IF hex THEN "p" ELSE "e")
    THEN IF m.i + 1 > Len(s) THEN noFloat(m.i + 1)
         ELSE IF At(s, m.i + 1) = "+" THEN readFloatExp(s, neg, hex, m, dp1, 1, m.i + 2)
         ELSE IF At(s, m.i + 1) = "-" THEN readFloatExp(s, neg, hex, m, dp1, -1, m.i + 2)
         ELSE readFloatExp(s, neg, hex, m, dp1, 1, m.i + 1)
    ELSE IF hex THEN noFloat(m.i)
    ELSE IF m.underscores /\ ~underscoreOK(SubSeq(s, 1, m.i - 1)) THEN noFloat(m.i)
    ELSE [ok |-> TRUE, i |-> m.i, neg |-> neg, hex |-> hex, digits |-> m.digits, dp |-> dp1]

\* pointOf without "if !sawdot { dp = nd }"
pointOf_NoPoint(hex, m) == m.dp * (IF hex THEN 4 ELSE 1)

\* "if !sawdot { dp = nd }; if base == 16 { dp *= 4 }"
pointOf(hex, m) == (IF m.sawdot THEN m.dp ELSE m.nd) * (IF hex THEN 4 ELSE 1)

readFloatMant(s, neg, hex, m) == readFloatTail(s, neg, hex, m, pointOf(hex, m))

\* readFloat at the digits, which start at byte i1
readFloatDigits(s, neg, hex, i1) ==
    readFloatMant(s, neg, hex,
                  readMantissa(s, i1, hex,
                               [i |-> i1, sawdot |-> FALSE, sawdigits |-> FALSE, nd |-> 0,
                                dp |-> 0, digits |-> "", underscores |-> FALSE]))

\* readFloat after the sign: the base prefix
readFloatBase(s, neg, i0) ==
    IF i0 + 2 <= Len(s) /\ At(s, i0) = "0" /\ lower(At(s, i0 + 1)) = "x"
    THEN readFloatDigits(s, neg, TRUE, i0 + 2)
    ELSE readFloatDigits(s, neg, FALSE, i0)

\* readFloat(s): i is the index of the first byte not consumed; the number
\* read is 0.digits * 10^dp, or 0.digits(base 16) * 2^dp for a hex mantissa
readFloat(s) ==
    IF s = "" THEN noFloat(1)
    ELSE readFloatBase(s, At(s, 1) = "-", IF At(s, 1) \in {"+", "-"} THEN 2 ELSE 1)

\* the decimal number 0.digits * 10^dp rounds to infinity
DecOverflows(digits, dp) ==
    \/ dp > ovfExp10
    \/ dp = ovfExp10 /\ ~FracLess(digits, ovfDigits)

\* the decimal number 0.digits * 10^dp rounds to zero
DecUnderflows(digits, dp) ==
    \/ dp < undExp10
    \/ dp = undExp10 /\ ~FracLess(undDigits, digits)

\* (*decimal).floatBits on the digits read, trailing zeros dropped: the
\* float64 and whether it overflowed
decimalBits(neg, digits, dp) ==
    IF digits = "" THEN [f |-> FloatZero(neg), ovf |-> FALSE]
    ELSE IF DecOverflows(digits, dp) THEN [f |-> FloatInf(neg), ovf |-> TRUE]
    ELSE IF DecUnderflows(digits, dp) THEN [f |-> FloatZero(neg), ovf |-> FALSE]
    ELSE [f |-> FloatFinite(neg, 10, digits, dp), ovf |-> FALSE]

decimalToFloat(neg, digits, dp) == decimalBits(neg, RStrip0(digits), dp)

RECURSIVE hexToBits(_)
hexToBits(h) == IF h = "" THEN "" ELSE HexBits(At(h, 1)) \o hexToBits(Tail1(h))

\* the float64 of 0.bits * 2^bp, bits free of leading and trailing zeros
hexBits(neg, bits, bp) ==
    IF bits = "" THEN [f |-> FloatZero(neg), ovf |-> FALSE]
    ELSE IF bp > ovfExp2 \/ (bp = ovfExp2 /\ ~FracLess(bits, ovfBits))
    THEN [f |-> FloatInf(neg), ovf |-> TRUE]
    ELSE IF bp < undExp2 \/ (bp = undExp2 /\ bits = "1")
    THEN [f |-> FloatZero(neg), ovf |-> FALSE]
    ELSE [f |-> FloatFinite(neg, 2, bits, bp), ovf |-> FALSE]

hexNormal(neg, all, lz, dp) == hexBits(neg, RStrip0(SubSeq(all, lz + 1, Len(all))), dp - lz)

hexShift(neg, all, dp) == hexNormal(neg, all, LeadZeros(all), dp)

\* atofHex: the float64 of 0.digits(base 16) * 2^dp and whether it overflowed
atofHex(neg, digits, dp) == hexShift(neg, hexToBits(digits), dp)

\* atof64 after the conversion c of what readFloat read up to byte n
atof64Result(c, n) == [f |-> c.f, n |-> n, err |-> IF c.ovf THEN "ErrRange" ELSE "nil"]

\* atof64 after readFloat has returned r
atof64Read(r) ==
    IF ~r.ok THEN [f |-> FloatZero(FALSE), n |-> r.i - 1, err |-> "ErrSyntax"]
    ELSE IF r.hex THEN atof64Result(atofHex(r.neg, r.digits, r.dp), r.i - 1)
    ELSE atof64Result(decimalToFloat(r.neg, r.digits, r.dp), r.i - 1)

\* atof64 after special has returned sp
atof64Special(s, sp) ==
    IF sp.ok THEN [f |-> sp.f, n |-> sp.n, err |-> "nil"] ELSE atof64Read(readFloat(s))

\* atof64(s): the float64, the number of bytes consumed and the error
atof64(s) == atof64Special(s, special(s))

\* ParseFloat after parseFloatPrefix has returned a
ParseFloatPrefixed(s, a) ==
    IF a.n # Len(s) /\ a.err # "ErrSyntax"
    THEN [val |-> FloatZero(FALSE), err |-> NumError("ParseFloat", s, "ErrSyntax")]
    ELSE [val |-> a.f,
          err |-> IF a.err = "nil" THEN Nil ELSE NumError("ParseFloat", s, a.err)]

ParseFloat(s) == ParseFloatPrefixed(s, atof64(s))

(***************************************************************************)
(* ConvertStringToType, statement by statement.                            *)
(***************************************************************************)
\* defaultType without the defaulting of the empty type
defaultType_NoDefault(t) == t

\* "Default to string if type is not specified"
defaultType(t) == IF t = "" THEN "string" ELSE t

Result(val, err) == [val |-> val, err |-> err]

\* fmt.Errorf("failed to parse '%s' as <what>: %w", v, err)
ErrorfParse(v, what, err) ==
    NewError("failed to parse '" \o v \o "' as " \o what \o ": " \o err.msg, err.unwrap)

caseString(v) == Result(StringValue(v), Nil)

\* parsed returning, beside the error, the value that the parser returned
parsed_KeepsValue(v, what, r) ==
    IF r.err # Nil THEN [val |-> r.val, err |-> ErrorfParse(v, what, r.err)]
    ELSE [val |-> r.val, err |-> Nil]

\* "if err != nil { return nil, fmt.Errorf(...) }; return floatVal, nil",
\* for r the value and the error that the parser returned
parsed(v, what, r) ==
    IF r.err # Nil THEN Result(Nil, ErrorfParse(v, what, r.err))
    ELSE Result(r.val, Nil)

\* caseNumber returning an int64 for a string that ParseInt accepts
caseNumber_IntFirst(v) ==
    IF ParseInt(v).err = Nil THEN [val |-> ParseInt(v).val, err |-> Nil]
    ELSE IF ParseFloat(v).err # Nil
    THEN [val |-> Nil, err |-> ErrorfParse(v, "number", ParseFloat(v).err)]
    ELSE [val |-> ParseFloat(v).val, err |-> Nil]

caseNumber(v) == parsed(v, "number", ParseFloat(v))

caseInteger(v) == parsed(v, "integer", ParseInt(v))

\* booleanOf comparing the value as it was passed, not its lower-case form
booleanOf_CaseSensitive(v, lowerVal) ==
    IF v \in {"true", "t", "yes", "y", "1"} THEN [val |-> BoolValue(TRUE), err |-> Nil]
    ELSE IF v \in {"false", "f", "no", "n", "0"} THEN [val |-> BoolValue(FALSE), err |-> Nil]
    ELSE [val |-> Nil, err |-> NewError("failed to parse '" \o v \o "' as boolean", "none")]

booleanOf(v, lowerVal) ==
    IF lowerVal \in {"true", "t", "yes", "y", "1"} THEN Result(BoolValue(TRUE), Nil)
    ELSE IF lowerVal \in {"false", "f", "no", "n", "0"} THEN Result(BoolValue(FALSE), Nil)
    ELSE Result(Nil, NewError("failed to parse '" \o v \o "' as boolean", "none"))

caseBoolean(v) == booleanOf(v, ToLower(v))

\* caseDefault with a message that does not name the type
caseDefault_NoName(t) ==
    [val |-> Nil, err |-> NewError("unsupported parameter type", "none")]

caseDefault(t) == Result(Nil, NewError("unsupported parameter type: " \o t, "none"))

Supported == {"string", "number", "integer", "boolean"}

(***************************************************************************)
(* The inputs of the model: every string of at most MaxLen bytes over      *)
(* Alphabet, and the strings of Samples.                                   *)
(***************************************************************************)
Alphabet == {"0", "1", "_", ".", "e", "-", "+"}

RECURSIVE Strs(_)
Strs(n) ==
    IF n = 0 THEN {""}
    ELSE LET p == Strs(n - 1) IN p \cup {t \o c : t \in p, c \in Alphabet}

Samples ==
    {"42", "hello", "x", "abc", "1.2.3", "maybe", " true", "yes!", "true ", "Yes", "N",
     "true", "t", "yes", "y", "false", "f", "no", "n", "TRUE", "True", "tRuE", "T", "YES",
     "yEs", "Y", "FALSE", "False", "fAlSe", "F", "NO", "No", "nO", "on", "off", "2", "00",
     "01", "tru", "truee", "ye", "nope", "\"", "\\",
     "9223372036854775807", "9223372036854775808", "-9223372036854775808",
     "-9223372036854775809", "+9223372036854775807", "0009223372036854775807",
     "18446744073709551615", "18446744073709551616", "99999999999999999999",
     "99999999999999999999x", "1_000", "0x10", "0b1", "1a", "12345", "-007", " 1", "1 ",
     "1.5", "1e999", "-1e999", "1e-999", "1e308", "1e309", "1.5e3", "1E3", "1e3", "1e+3", "2.5",
     "1.7976931348623157e308", "1.7976931348623158e308", "1.7976931348623159e308",
     "17976931348623158e292", "2e-324", "3e-324", "5e-324", "-2e-324",
     "2.4703282292062327e-324", "2.4703282292062328e-324", "1e99999999",
     "0x1p-2", "0X1P-2", "0x1p", "0x1", "0x.8p1", "0x1.fffffffffffffp1023", "0x1p1024",
     "0x1.fffffffffffff8p1023", "0x1.fffffffffffff7p1023", "0x1p-1075", "0x1p-1074",
     "0x1.8p-1075", "0x_1p0", "1_0", "1__0", "_1", "1_", "1_.5", "1e1_0", "1e_1",
     "inf", "Inf", "INF", "+inf", "-inf", "infinity", "-Infinity", "infi", "infinit",
     "infinityx", "NaN", "nan", "NAN", "+nan", "-nan", "nanx", "na", "in",
     "1,5", "1d", "1f", "0.1", "100", "1e", "e1", ".", ".5", "5.", "-.5e-1", "+", "-",
     "--1", "+-1", "1.0", "42.0", "4.2e1", "0042", "0.0", "-0", "-0.0", "0e5"}

Values == Strs(MaxLen) \cup Samples

ParamTypes == {"", "string", "number", "integer", "boolean",
               "enum", "String", "bool", "int", "float", "NUMBER", " string"}

NoResult == Result(Nil, Nil)

(***************************************************************************)
(* The state machine: one call, with any arguments, runs from its entry    *)
(* through the defaulting of paramType and the switch to its return.       *)
(* argType keeps the paramType argument as it was passed; prev keeps the   *)
(* result of the call before this one, when there was one.                 *)
(***************************************************************************)
Init ==
    /\ pc = "entry"
    /\ value \in Values
    /\ paramType \in ParamTypes
    /\ argType = paramType
    /\ ret = NoResult
    /\ prev = NoResult

DefaultType ==
    /\ pc = "entry"
    /\ paramType' = defaultType(paramType)
    /\ pc' = "switch"
    /\ UNCHANGED <<value, argType, ret, prev>>

Return(r) ==
    /\ ret' = r
    /\ pc' = "done"
    /\ UNCHANGED <<value, paramType, argType, prev>>

CaseString == pc = "switch" /\ paramType = "string" /\ Return(caseString(value))

CaseNumber == pc = "switch" /\ paramType = "number" /\ Return(caseNumber(value))

CaseInteger == pc = "switch" /\ paramType = "integer" /\ Return(caseInteger(value))

CaseBoolean == pc = "switch" /\ paramType = "boolean" /\ Return(caseBoolean(value))

CaseDefault == pc = "switch" /\ paramType \notin Supported /\ Return(caseDefault(paramType))

Next ==
    \/ DefaultType
    \/ CaseString
    \/ CaseNumber
    \/ CaseInteger
    \/ CaseBoolean
    \/ CaseDefault

Spec == Init /\ [][Next]_vars

(***************************************************************************)
(* A caller that converts one string twice: first as "integer", then, the  *)
(* first result kept in prev, as "number".                                 *)
(***************************************************************************)
InitPair ==
    /\ pc = "entry"
    /\ value \in Values
    /\ paramType = "integer"
    /\ argType = "integer"
    /\ ret = NoResult
    /\ prev = NoResult

CallAsNumber ==
    /\ pc = "done"
    /\ argType = "integer"
    /\ prev' = ret
    /\ ret' = NoResult
    /\ paramType' = "number"
    /\ argType' = "number"
    /\ pc' = "entry"
    /\ UNCHANGED value

NextPair ==
    \/ DefaultType
    \/ CaseInteger
    \/ CaseNumber
    \/ CallAsNumber

SpecPair == InitPair /\ [][NextPair]_vars

\* the whole function, as the composition of its statements
ConvertStringToType(v, t) ==
    LET pt == defaultType(t) IN
    CASE pt = "string" -> caseString(v)
      [] pt = "number" -> caseNumber(v)
      [] pt = "integer" -> caseInteger(v)
      [] pt = "boolean" -> caseBoolean(v)
      [] OTHER -> caseDefault(pt)

(***************************************************************************)
(* Vocabulary of the properties.  None of it is used by the model above.   *)
(***************************************************************************)
Done == pc = "done"

Succeeded(r) == r.val # Nil /\ r.err = Nil

Failed(r) == r.val = Nil /\ r.err # Nil

HasPrefix(s, p) == Len(s) >= Len(p) /\ SubSeq(s, 1, Len(p)) = p

Contains(s, sub) == \E i \in 1..(Len(s) - Len(sub) + 1) : SubSeq(s, i, i + Len(sub) - 1) = sub

\* a failure whose message says that v could not be parsed as what
ConversionError(r, v, what) ==
    /\ Failed(r)
    /\ HasPrefix(r.err.msg, "failed to parse '" \o v \o "' as " \o what)

\* a failure whose message says that the type t is not supported
UnsupportedTypeError(r, t) ==
    /\ Failed(r)
    /\ r.err.msg = "unsupported parameter type: " \o t

IsUnsupportedMessage(r) ==
    r.err # Nil /\ HasPrefix(r.err.msg, "unsupported parameter type")

RecognizedTags == {"", "string", "number", "integer", "boolean"}

\* two bytes that are the same letter in either case, or the same byte
SameFold(a, b) == a = b \/ \E i \in 1..26 : {a, b} = {At(Upper, i), At(Lower, i)}

\* a and b are equal when case is ignored
EqualFold(a, b) == Len(a) = Len(b) /\ \A i \in 1..Len(a) : SameFold(At(a, i), At(b, i))

Truthy == {"true", "t", "yes", "y", "1"}

Falsy == {"false", "f", "no", "n", "0"}

IsDigits(t) == t # "" /\ \A i \in 1..Len(t) : At(t, i) \in Digits

IsDigitsOrEmpty(t) == \A i \in 1..Len(t) : At(t, i) \in Digits

\* s without one leading sign
Unsigned(s) == IF s # "" /\ At(s, 1) \in {"+", "-"} THEN SubSeq(s, 2, Len(s)) ELSE s

IsNegative(s) == s # "" /\ At(s, 1) = "-"

\* d without its leading and its trailing zeros
StripZeros(d) ==
    IF \A i \in 1..Len(d) : At(d, i) = "0" THEN ""
    ELSE LET nz == {i \in 1..Len(d) : At(d, i) # "0"}
             lo == CHOOSE i \in nz : \A j \in nz : i <= j
             hi == CHOOSE i \in nz : \A j \in nz : j <= i
         IN  SubSeq(d, lo, hi)

\* the number of zeros that d starts with
ZerosBefore(d) == Cardinality({i \in 1..Len(d) : \A j \in 1..i : At(d, j) = "0"})

\* d without its leading zeros, "0" for zero
Magnitude(d) ==
    IF ZerosBefore(d) = Len(d) THEN "0" ELSE SubSeq(d, ZerosBefore(d) + 1, Len(d))

\* a < b for two strings of digits of the same length
LexLess(a, b) ==
    \E i \in 1..Len(a) :
        /\ DigitVal(At(a, i)) < DigitVal(At(b, i))
        /\ \A j \in 1..(i - 1) : At(a, j) = At(b, j)

\* an optional sign and one or more decimal digits
IsIntLiteral(s) == IsDigits(Unsigned(s))

\* the literal s denotes an integer of [-2^63, 2^63 - 1]
InInt64Range(s) ==
    LET m == Magnitude(Unsigned(s)) IN
    \/ Len(m) < 19
    \/ /\ Len(m) = 19
       /\ \/ LexLess(m, "9223372036854775808")
          \/ IsNegative(s) /\ m = "9223372036854775808"

\* the int64 that the literal s denotes
IntDenoted(s) ==
    LET m == Magnitude(Unsigned(s)) IN Int64Value(IsNegative(s) /\ m # "0", m)

\* digits, with at most one point among or around them
IsMantissa(m) ==
    \/ IsDigits(m)
    \/ \E k \in 1..Len(m) :
         /\ At(m, k) = "."
         /\ IsDigitsOrEmpty(SubSeq(m, 1, k - 1))
         /\ IsDigitsOrEmpty(SubSeq(m, k + 1, Len(m)))
         /\ Len(m) > 1

\* an optional sign and one or more decimal digits, after the e or the p
IsExponent(x) == IsDigits(Unsigned(x))

\* a mantissa and an optional exponent after e or E
IsUnsignedDecimal(b) ==
    \/ IsMantissa(b)
    \/ \E k \in 1..Len(b) :
         /\ At(b, k) \in {"e", "E"}
         /\ IsMantissa(SubSeq(b, 1, k - 1))
         /\ IsExponent(SubSeq(b, k + 1, Len(b)))

\* the standard decimal syntax: an optional sign, a mantissa and an
\* optional exponent after e or E
IsDecimalFloat(s) == IsUnsignedDecimal(Unsigned(s))

\* the index of the e of a decimal literal, past its end when it has none
ExpMark(b) ==
    IF \E k \in 1..Len(b) : At(b, k) \in {"e", "E"}
    THEN CHOOSE k \in 1..Len(b) : At(b, k) \in {"e", "E"}
    ELSE Len(b) + 1

\* the index of the point of a mantissa, past its end when it has none
PointMark(m) ==
    IF \E k \in 1..Len(m) : At(m, k) = "."
    THEN CHOOSE k \in 1..Len(m) : At(m, k) = "."
    ELSE Len(m) + 1

RECURSIVE NatOf(_)
\* the number that a string of digits denotes
NatOf(d) ==
    IF d = "" THEN 0 ELSE NatOf(SubSeq(d, 1, Len(d) - 1)) * 10 + DigitVal(At(d, Len(d)))

\* the integer after the e of a decimal literal, 0 when it has none
ExponentOf(b) ==
    LET x == SubSeq(b, ExpMark(b) + 1, Len(b)) IN
    IF x = "" THEN 0
    ELSE IF At(x, 1) = "-" THEN 0 - NatOf(Unsigned(x))
    ELSE NatOf(Unsigned(x))

\* all the digits of the mantissa of a decimal literal, the point left out
MantissaDigits(b) ==
    LET m == SubSeq(b, 1, ExpMark(b) - 1) IN
    SubSeq(m, 1, PointMark(m) - 1) \o SubSeq(m, PointMark(m) + 1, Len(m))

\* the decimal literal s denotes 0.DenotedDigits(s) * 10^DenotedExp(s)
DenotedDigits(s) == StripZeros(MantissaDigits(Unsigned(s)))

DenotedExp(s) ==
    LET b == Unsigned(s)
        m == SubSeq(b, 1, ExpMark(b) - 1)
    IN  (PointMark(m) - 1) + ExponentOf(b) - ZerosBefore(MantissaDigits(b))

\* 0.a < 0.b, for strings of digits
FractionLess(a, b) ==
    LET n    == IF Len(a) < Len(b) THEN Len(b) ELSE Len(a)
        d(x, i) == IF i <= Len(x) THEN DigitVal(At(x, i)) ELSE 0
    IN  \E i \in 1..n : d(a, i) < d(b, i) /\ \A j \in 1..(i - 1) : d(a, j) = d(b, j)

\* the magnitude of the decimal literal s is below 2^1024 - 2^970, so that
\* the float64 nearest to it is finite
BelowOverflow(s) ==
    \/ DenotedDigits(s) = ""
    \/ DenotedExp(s) < 309
    \/ DenotedExp(s) = 309 /\ FractionLess(DenotedDigits(s), ovfDigits)

\* the magnitude of the decimal literal s is above 2^-1075, so that the
\* float64 nearest to it is not zero
AboveUnderflow(s) ==
    /\ DenotedDigits(s) # ""
    /\ \/ DenotedExp(s) > -323
       \/ DenotedExp(s) = -323 /\ FractionLess(undDigits, DenotedDigits(s))

\* the float64 nearest to the number that the decimal literal s denotes,
\* for a literal below the overflow threshold
NearestFloat(s) ==
    IF AboveUnderflow(s)
    THEN [kind |-> "float64", class |-> "finite", neg |-> IsNegative(s), radix |-> 10,
          digits |-> DenotedDigits(s), exp |-> DenotedExp(s)]
    ELSE [kind |-> "float64", class |-> "zero", neg |-> IsNegative(s), radix |-> 0,
          digits |-> "", exp |-> 0]

HexDigits == Digits \cup {"a", "b", "c", "d", "e", "f", "A", "B", "C", "D", "E", "F"}

IsHexDigitsOrEmpty(t) == \A i \in 1..Len(t) : At(t, i) \in HexDigits

\* hexadecimal digits, with at most one point among or around them
IsHexMantissa(m) ==
    \/ (m # "" /\ IsHexDigitsOrEmpty(m))
    \/ \E k \in 1..Len(m) :
         /\ At(m, k) = "."
         /\ IsHexDigitsOrEmpty(SubSeq(m, 1, k - 1))
         /\ IsHexDigitsOrEmpty(SubSeq(m, k + 1, Len(m)))
         /\ Len(m) > 1

StartsHex(b) == Len(b) >= 2 /\ At(b, 1) = "0" /\ At(b, 2) \in {"x", "X"}

\* the hexadecimal syntax, sign taken off: 0x, a mantissa, p and an exponent
IsHexFloat(b) ==
    /\ StartsHex(b)
    /\ \E k \in 3..Len(b) :
         /\ At(b, k) \in {"p", "P"}
         /\ IsHexMantissa(SubSeq(b, 3, k - 1))
         /\ IsExponent(SubSeq(b, k + 1, Len(b)))

\* every underscore of b stands between two digits, or between the 0x
\* and a digit
SeparatorsOK(b) ==
    LET hex      == StartsHex(b)
        digit(c) == c \in Digits \/ (hex /\ c \in HexDigits)
    IN  \A i \in 1..Len(b) :
            At(b, i) = "_" =>
                /\ 1 < i /\ i < Len(b)
                /\ digit(At(b, i - 1)) \/ (hex /\ i = 3)
                /\ digit(At(b, i + 1))

RECURSIVE WithoutSeparators(_)
WithoutSeparators(b) ==
    IF b = "" THEN ""
    ELSE (IF At(b, 1) = "_" THEN "" ELSE At(b, 1)) \o WithoutSeparators(SubSeq(b, 2, Len(b)))

\* inf and infinity with an optional sign, and nan, in any case
IsInfOrNaN(s) ==
    \E w \in {"inf", "+inf", "-inf", "infinity", "+infinity", "-infinity", "nan"} :
        EqualFold(s, w)

\* the syntax of Go's floating-point literals, as ParseFloat reads them
IsGoFloat(s) ==
    \/ IsInfOrNaN(s)
    \/ LET b == Unsigned(s) IN
       /\ SeparatorsOK(b)
       /\ IF StartsHex(b) THEN IsHexFloat(WithoutSeparators(b))
          ELSE IsUnsignedDecimal(WithoutSeparators(b))

\* a call that has not returned has a statement to execute: the guard of
\* DefaultType or of one of the cases of the switch holds
CanStep ==
    \/ pc = "entry"
    \/ /\ pc = "switch"
       /\ \/ paramType \in {"string", "number", "integer", "boolean"}
          \/ paramType \notin Supported

\* the dynamic type that a successful call returns for the type tag t
KindOf(t) ==
    CASE t \in {"", "string"} -> "string"
      [] t = "number" -> "float64"
      [] t = "integer" -> "int64"
      [] t = "boolean" -> "bool"
      [] OTHER -> "none"

\* the float64 nearest to the int64 i, written as the model writes floats
FloatOfInt(i) ==
    IF i.mag = "0"
    THEN [kind |-> "float64", class |-> "zero", neg |-> FALSE, radix |-> 0,
          digits |-> "", exp |-> 0]
    ELSE [kind |-> "float64", class |-> "finite", neg |-> i.neg, radix |-> 10,
          digits |-> StripZeros(i.mag), exp |-> Len(i.mag)]

\* two float64s that are the same number: equal, or both zero
SameNumber(f, g) == f = g \/ (f.class = "zero" /\ g.class = "zero")

(***************************************************************************)
(* C1: with paramType "string" or "", every value, the empty string        *)
(* included, is returned unchanged with a nil error, so that both tags     *)
(* give the same result.                                                   *)
(***************************************************************************)
C1_StringUnchanged ==
    (Done /\ argType \in {"", "string"}) =>
        /\ ret.err = Nil
        /\ ret.val.kind = "string"
        /\ ret.val.s = value

C1_Witness ==
    /\ Done
    /\ argType = ""
    /\ value = "hello"
    /\ ret.err = Nil
    /\ ret.val = [kind |-> "string", s |-> "hello"]

(***************************************************************************)
(* C2: with paramType "boolean" the call returns true exactly for the      *)
(* values that equal, case ignored, one of true, t, yes, y, 1, false       *)
(* exactly for those that equal one of false, f, no, n, 0, and fails with  *)
(* a conversion error for every other value; the whole string is matched.  *)
(***************************************************************************)
C2_BooleanTokens ==
    (Done /\ argType = "boolean") =>
        LET isTrue  == \E w \in Truthy : EqualFold(value, w)
            isFalse == \E w \in Falsy : EqualFold(value, w)
        IN  /\ isTrue => (ret.err = Nil /\ ret.val = [kind |-> "bool", b |-> TRUE])
            /\ isFalse => (ret.err = Nil /\ ret.val = [kind |-> "bool", b |-> FALSE])
            /\ (~isTrue /\ ~isFalse) => ConversionError(ret, value, "boolean")

C2_Witness ==
    /\ Done
    /\ argType = "boolean"
    /\ value = "yEs"
    /\ ret.err = Nil
    /\ ret.val = [kind |-> "bool", b |-> TRUE]

(***************************************************************************)
(* C3: with paramType "integer" the call succeeds, with the integer        *)
(* denoted, exactly when value is a base-10 integer literal of the signed  *)
(* 64-bit range; it fails with a conversion error on every other string,   *)
(* and never wraps around or clamps.                                       *)
(***************************************************************************)
C3_IntegerRange ==
    (Done /\ argType = "integer") =>
        IF IsIntLiteral(value) /\ InInt64Range(value)
        THEN ret.err = Nil /\ ret.val = IntDenoted(value)
        ELSE ConversionError(ret, value, "integer")

C3_Witness ==
    /\ Done
    /\ argType = "integer"
    /\ value = "-9223372036854775808"
    /\ ret.err = Nil
    /\ ret.val = [kind |-> "int64", neg |-> TRUE, mag |-> "9223372036854775808"]

(***************************************************************************)
(* C4: every paramType other than "", "string", "number", "integer" and    *)
(* "boolean", compared exactly, fails for every value with an unsupported- *)
(* type error that names the type; the five recognized tags never produce  *)
(* that error.                                                             *)
(***************************************************************************)
C4_UnsupportedType ==
    Done =>
        /\ argType \notin RecognizedTags => UnsupportedTypeError(ret, argType)
        /\ argType \in RecognizedTags => ~IsUnsupportedMessage(ret)

C4_Witness ==
    /\ Done
    /\ argType = "enum"
    /\ value = "42"
    /\ ret.val = Nil
    /\ ret.err.msg = "unsupported parameter type: enum"

C6_Original ==
    (Done /\ argType = "number" /\ ~IsDecimalFloat(value)) =>
        ConversionError(ret, value, "number")

(***************************************************************************)
(* C6, amended: with paramType "number" every string that is not a         *)
(* floating-point literal of Go's syntax (a decimal literal, a hexadecimal *)
(* literal with a p exponent, either with underscores between digits, or   *)
(* inf, infinity or nan in any case, the first two with an optional sign)  *)
(* fails with a conversion error and returns no value; a string of that    *)
(* syntax never fails for its syntax, and inf, infinity and nan convert.   *)
(***************************************************************************)
C6_NotAFloat ==
    (Done /\ argType = "number") =>
        /\ ~IsGoFloat(value) =>
              /\ ConversionError(ret, value, "number")
              /\ ret.err.unwrap = "ErrSyntax"
        /\ IsGoFloat(value) => (ret.err = Nil \/ ret.err.unwrap = "ErrRange")
        /\ IsInfOrNaN(value) => (ret.err = Nil /\ ret.val.class \in {"Inf", "NaN"})

C6_Witness ==
    /\ Done
    /\ argType = "number"
    /\ value = "1.2.3"
    /\ ret.val = Nil
    /\ ret.err.msg = "failed to parse '1.2.3' as number: strconv.ParseFloat: parsing \"1.2.3\": invalid syntax"

(***************************************************************************)
(* C7: the outcome of a call is a function of its arguments alone.  The    *)
(* model has no formula for it: ConvertStringToType is an operator of      *)
(* (value, paramType), and two evaluations of an operator agree in every   *)
(* model.                                                                  *)
(***************************************************************************)

(***************************************************************************)
(* C8: every call ends, with a non-nil value and a nil error or with a     *)
(* nil value and a non-nil error; a failure substitutes no value, and its  *)
(* message embeds the input string as passed (a conversion failure) or     *)
(* the type tag (an unsupported type).                                     *)
(***************************************************************************)
C8_SuccessOrFailure ==
    /\ Done \/ CanStep
    /\ Done =>
        /\ Succeeded(ret) \/ Failed(ret)
        /\ ~(Succeeded(ret) /\ Failed(ret))
        /\ Failed(ret) =>
              IF argType \in RecognizedTags
              THEN Contains(ret.err.msg, "'" \o value \o "'")
              ELSE Contains(ret.err.msg, argType)

C8_Witness ==
    /\ Done
    /\ argType = "integer"
    /\ value = "1.5"
    /\ ret.val = Nil
    /\ ret.err.kind = "error"
    /\ Contains(ret.err.msg, "'1.5'")

(***************************************************************************)
(* C9: whenever a call succeeds, the kind of the value returned is set by  *)
(* paramType alone: a string for "" and "string", a float64 for "number",  *)
(* an int64 for "integer", a bool for "boolean".                           *)
(***************************************************************************)
C9_KindByType ==
    (Done /\ ret.err = Nil) => ret.val.kind = KindOf(argType)

C9_Witness ==
    /\ Done
    /\ argType = "number"
    /\ value = "42"
    /\ ret.err = Nil
    /\ ret.val.kind = "float64"

(***************************************************************************)
(* C10: every string that converts as "integer" also converts as "number", *)
(* to the float64 nearest to the same number, while "1.5", "1e3" and       *)
(* "9223372036854775808" convert as "number" and fail as "integer".        *)
(***************************************************************************)
C10_IntegerNarrower ==
    (Done /\ argType = "number") =>
        /\ prev.err = Nil =>
              /\ prev.val.kind = "int64"
              /\ ret.err = Nil
              /\ SameNumber(ret.val, FloatOfInt(prev.val))
        /\ value \in {"1.5", "1e3", "9223372036854775808"} =>
              (prev.err # Nil /\ prev.val = Nil /\ ret.err = Nil)

C10_Witness ==
    /\ Done
    /\ argType = "number"
    /\ value = "-007"
    /\ prev.val = [kind |-> "int64", neg |-> TRUE, mag |-> "7"]
    /\ ret.err = Nil
    /\ ret.val = [kind |-> "float64", class |-> "finite", neg |-> TRUE, radix |-> 10,
                  digits |-> "7", exp |-> 1]

====
